---- MODULE Spec2Model ----
(***************************************************************************)
(* Model of square_refund_processor.py: main() constructs a                *)
(* SquareRefundProcessor, read_csv_file loads and validates the rows of a  *)
(* CSV file, process_refunds calls create_refund once per loaded request   *)
(* and returns the summary from which main derives the exit code.          *)
(*                                                                         *)
(* Text is modelled as tuples of one-character strings so that str.strip   *)
(* and float() are computed rather than assumed.  Amounts are exact        *)
(* decimals held in thousandths; the amounts of LinePool are exactly       *)
(* representable in binary floating point, so the exact arithmetic agrees  *)
(* with Python's float arithmetic on them.                                 *)
(***************************************************************************)
EXTENDS Integers, Sequences, FiniteSets, TLC

VARIABLES
  fstatus,          \* what open()/read() of csv_file_path did
  header,           \* reader.fieldnames: cells of the first physical line
  lines,            \* physical lines 2.. of the file; <<>> is a blank line
  pc,               \* position of the control flow
  line_pos,         \* number of physical data lines consumed by the reader
  rows_read,        \* number of rows the DictReader has yielded
  refund_data,      \* read_csv_file: the list being built / returned
  load_log,         \* per yielded row: row_num, reader line number, verdict
  i,                \* process_refunds: number of requests processed
  successful_refunds,
  failed_refunds,
  calls,            \* bodies passed to refunds_api.refund_payment, in order
  outcomes,         \* per create_refund invocation: what the call did
  rate_total,       \* denominators used by the success-rate division
  results,          \* <<summary>> once process_refunds has returned
  fatal,            \* exception that reached main, "none" otherwise
  exit_code         \* <<status>> once sys.exit has been called

vars == <<fstatus, header, lines, pc, line_pos, rows_read,
          refund_data, load_log, i, successful_refunds, failed_refunds,
          calls, outcomes, rate_total, results, fatal, exit_code>>

----------------------------------------------------------------------------
(* Bounds of the model. *)

MaxLines == 3

----------------------------------------------------------------------------
(* Program constants. *)

StartRow == 2
ExitOk == 0
ExitFail == 1
ExitUsage == 2
CentsPerUnit == 100

RequiredColumns == {"payment_id", "amount"}

----------------------------------------------------------------------------
(* Text helpers. *)

Range(s) == {s[k] : k \in 1..Len(s)}

Whitespace == {" ", "\t"}

Digits == {"0", "1", "2", "3", "4", "5", "6", "7", "8", "9"}

DigitVal(c) ==
  CASE c = "0" -> 0 [] c = "1" -> 1 [] c = "2" -> 2 [] c = "3" -> 3
    [] c = "4" -> 4 [] c = "5" -> 5 [] c = "6" -> 6 [] c = "7" -> 7
    [] c = "8" -> 8 [] c = "9" -> 9

Lower(c) ==
  CASE c = "N" -> "n" [] c = "A" -> "a" [] c = "I" -> "i" [] c = "F" -> "f"
    [] OTHER -> c

RECURSIVE lstrip(_)
lstrip(s) ==
  IF s # <<>> /\ Head(s) \in Whitespace THEN lstrip(Tail(s)) ELSE s

RECURSIVE rstrip(_)
rstrip(s) ==
  IF s # <<>> /\ s[Len(s)] \in Whitespace
    THEN rstrip(SubSeq(s, 1, Len(s) - 1))
    ELSE s

\* str.strip()
strip(s) == rstrip(lstrip(s))

RECURSIVE DigitsValue(_)
DigitsValue(s) ==
  IF s = <<>> THEN 0
  ELSE 10 * DigitsValue(SubSeq(s, 1, Len(s) - 1)) + DigitVal(s[Len(s)])

\* thousandths denoted by the digits after the decimal point
FracMilli(s) ==
  LET d == IF Len(s) <= 3 THEN s ELSE SubSeq(s, 1, 3)
  IN  CASE Len(d) = 0 -> 0
        [] Len(d) = 1 -> 100 * DigitsValue(d)
        [] Len(d) = 2 -> 10 * DigitsValue(d)
        [] OTHER -> DigitsValue(d)

NotANumber == [kind |-> "error", sign |-> 1, milli |-> 0]

\* float(s) for signed decimals without exponent, "nan", "inf", "infinity"
float(str) ==
  LET s == strip(str)
      signed == s # <<>> /\ s[1] \in {"-", "+"}
      sign == IF signed /\ s[1] = "-" THEN -1 ELSE 1
      body == IF signed THEN Tail(s) ELSE s
      word == [k \in 1..Len(body) |-> Lower(body[k])]
      dots == {k \in 1..Len(body) : body[k] = "."}
      dot == IF dots = {} THEN Len(body) + 1
             ELSE CHOOSE k \in dots : \A m \in dots : k <= m
      intpart == SubSeq(body, 1, dot - 1)
      fracpart == SubSeq(body, dot + 1, Len(body))
  IN  CASE word = <<"n", "a", "n">> ->
             [kind |-> "nan", sign |-> sign, milli |-> 0]
        [] word \in {<<"i", "n", "f">>,
                     <<"i", "n", "f", "i", "n", "i", "t", "y">>} ->
             [kind |-> "inf", sign |-> sign, milli |-> 0]
        [] /\ Cardinality(dots) <= 1
           /\ Len(intpart) + Len(fracpart) >= 1
           /\ Range(intpart) \subseteq Digits
           /\ Range(fracpart) \subseteq Digits ->
             [kind |-> "num", sign |-> sign,
              milli |-> 1000 * DigitsValue(intpart) + FracMilli(fracpart)]
        [] OTHER -> NotANumber

\* amount <= 0 on floats: every comparison with NaN is False
nonpositive(amount) ==
  CASE amount.kind = "num" -> amount.sign * amount.milli <= 0
    [] amount.kind = "inf" -> amount.sign < 0
    [] OTHER -> FALSE

\* amount > 0 on floats
positive(amount) ==
  CASE amount.kind = "num" -> amount.sign * amount.milli > 0
    [] amount.kind = "inf" -> amount.sign > 0
    [] OTHER -> FALSE

----------------------------------------------------------------------------
(* csv.DictReader *)

\* index of the next physical line that is not blank, 0 at end of file:
\* DictReader.__next__ drops the rows the reader returns as []
next_record(ls, pos) ==
  LET rest == {k \in (pos + 1)..Len(ls) : ls[k] # <<>>}
  IN  IF rest = {} THEN 0 ELSE CHOOSE k \in rest : \A m \in rest : k <= m

\* row[name] of dict(zip(fieldnames, cells)): KeyError without such a column,
\* restval=None for a row with too few cells, cells beyond the header ignored
field(fieldnames, cells, name) ==
  LET cols == {k \in 1..Len(fieldnames) : fieldnames[k] = name}
      col == IF cols = {} THEN 0 ELSE CHOOSE k \in cols : \A m \in cols : m <= k
  IN  [raised |-> IF col = 0 THEN "KeyError"
                  ELSE IF col > Len(cells) THEN "AttributeError" ELSE "none",
       text |-> IF col \in 1..Len(cells) THEN cells[col] ELSE <<>>]

header_rejected_if_empty(fieldnames) == fieldnames = <<>>

\* not reader.fieldnames or not required_columns.issubset(reader.fieldnames)
header_rejected(fieldnames) ==
  fieldnames = <<>> \/ ~(RequiredColumns \subseteq Range(fieldnames))

----------------------------------------------------------------------------
(* read_csv_file, body of the row loop: the verdict on one yielded row. *)

validate_row(fieldnames, cells) ==
  LET pid == field(fieldnames, cells, "payment_id")
      amt == field(fieldnames, cells, "amount")
      payment_id == strip(pid.text)
      amount == float(amt.text)
  IN  CASE pid.raised # "none" ->
             [verdict |-> pid.raised, payment_id |-> <<>>, amount |-> NotANumber]
        [] amt.raised # "none" ->
             [verdict |-> amt.raised, payment_id |-> <<>>, amount |-> NotANumber]
        [] payment_id = <<>> ->
             [verdict |-> "empty_payment_id", payment_id |-> payment_id, amount |-> NotANumber]
        [] amount.kind = "error" ->
             [verdict |-> "invalid_format", payment_id |-> payment_id, amount |-> amount]
        [] nonpositive(amount) ->
             [verdict |-> "invalid_amount", payment_id |-> payment_id, amount |-> amount]
        [] OTHER ->
             [verdict |-> "append", payment_id |-> payment_id, amount |-> amount]

----------------------------------------------------------------------------
(* create_refund *)

\* int(amount * 100): truncation; OverflowError on inf, ValueError on nan
amount_cents(amount) ==
  IF amount.kind = "num"
    THEN [raised |-> "none",
          cents |-> amount.sign * ((amount.milli * CentsPerUnit) \div 1000)]
    ELSE [raised |-> IF amount.kind = "inf" THEN "OverflowError" ELSE "ValueError",
          cents |-> 0]

\* what refund_payment and the handling of its result can do
CallOutcomes ==
  {"success",            \* is_success() true, body holds a refund mapping
   "success_no_body",    \* is_success() true, body is None: AttributeError
   "failure",            \* is_success() false, errors listed
   "no_indicator",       \* result has no is_success: AttributeError
   "APIException",       \* raised by the call
   "Exception",          \* any other Exception raised by the call
   "KeyboardInterrupt"}  \* Ctrl-C while the call is in progress

\* exception (or "none") that the try body raises for a call outcome
raised_by(outcome) ==
  CASE outcome \in {"success", "failure"} -> "none"
    [] outcome \in {"success_no_body", "no_indicator"} -> "AttributeError"
    [] OTHER -> outcome

caught_bare(exc) == TRUE

\* the except clauses of create_refund: APIException, then Exception
caught(exc) == exc # "KeyboardInterrupt"

create_refund_trusting(amount, outcome) ==
  LET conv == amount_cents(amount)
      exc == IF conv.raised # "none" THEN conv.raised ELSE raised_by(outcome)
  IN  [called |-> conv.raised = "none",
       cents |-> conv.cents,
       did |-> IF conv.raised # "none" THEN conv.raised ELSE outcome,
       propagates |-> exc # "none" /\ ~caught(exc),
       success |-> exc = "none"]

\* create_refund(payment_id, amount) when the collaborator does `outcome`
create_refund(amount, outcome) ==
  LET conv == amount_cents(amount)
      exc == IF conv.raised # "none" THEN conv.raised ELSE raised_by(outcome)
  IN  [called |-> conv.raised = "none",
       cents |-> conv.cents,
       did |-> IF conv.raised # "none" THEN conv.raised ELSE outcome,
       propagates |-> exc # "none" /\ ~caught(exc),
       success |-> exc = "none" /\ outcome = "success"]

----------------------------------------------------------------------------
(* process_refunds and main: the summary and the exit status. *)

no_valid_data_unchecked(data) == FALSE

\* if not refund_data
no_valid_data(data) == data = <<>>

RunSummary(total, successful, failed) ==
  [total |-> total, successful |-> successful, failed |-> failed]

\* if success: successful_refunds += 1
count_successful(n, success) == IF success THEN n + 1 ELSE n

count_failed_never(n, success) == n

\* else: failed_refunds += 1
count_failed(n, success) == IF success THEN n ELSE n + 1

exit_status_tolerant(summary) == IF summary.failed > 1 THEN ExitFail ELSE ExitOk

\* main: sys.exit(1) if results['failed'] > 0 else sys.exit(0)
exit_status(summary) == IF summary.failed > 0 THEN ExitFail ELSE ExitOk

----------------------------------------------------------------------------
(* Input files. *)

Cell_A == <<"A">>
Cell_B == <<"B">>
Cell_A_padded == <<" ", "A", " ">>

LinePool ==
  { <<>>,                                                \* blank line
    <<Cell_A, <<"1", ".", "5">>>>,                       \* A,1.5
    <<Cell_A_padded, <<" ", "2", " ">>, <<"n">>>>,       \* " A "," 2 ",n
    <<Cell_B, <<"1", ".", "1", "2", "5">>>>,             \* B,1.125
    <<<<>>, <<"5">>>>,                                   \* ,5
    <<<<" ">>, <<"x">>>>,                                \* " ",x
    <<Cell_A, <<"0">>>>,                                 \* A,0
    <<Cell_B, <<"-", "5">>>>,                            \* B,-5
    <<Cell_A, <<"x">>>>,                                 \* A,x
    <<Cell_B, <<>>>>,                                    \* B,
    <<Cell_A, <<"n", "a", "n">>>>,                       \* A,nan
    <<Cell_B, <<"i", "n", "f">>>>,                       \* B,inf
    <<Cell_B>> }                                         \* B

RECURSIVE SeqsUpTo(_, _)
SeqsUpTo(S, n) ==
  IF n = 0 THEN {<<>>}
  ELSE LET shorter == SeqsUpTo(S, n - 1)
       IN  shorter \cup {Append(q, x) : q \in {r \in shorter : Len(r) = n - 1}, x \in S}

GoodHeaders == { <<"payment_id", "amount">>, <<"amount", "payment_id">> }

BadHeaders ==
  { <<>>, <<"payment_id", "amt">>, <<"Payment_ID", "amount">>, <<"amount">> }

InputFiles ==
  [header : GoodHeaders, lines : SeqsUpTo(LinePool, MaxLines)]
    \cup [header : BadHeaders, lines : SeqsUpTo(LinePool, 1)]

----------------------------------------------------------------------------
(* The state machine. *)

Init ==
  /\ fstatus = "unopened"
  /\ header = <<>>
  /\ lines = <<>>
  /\ pc = "main"
  /\ line_pos = 0
  /\ rows_read = 0
  /\ refund_data = <<>>
  /\ load_log = <<>>
  /\ i = 0
  /\ successful_refunds = 0
  /\ failed_refunds = 0
  /\ calls = <<>>
  /\ outcomes = <<>>
  /\ rate_total = <<>>
  /\ results = <<>>
  /\ fatal = "none"
  /\ exit_code = <<>>

file_vars == <<fstatus, header, lines>>
load_vars == <<line_pos, rows_read, refund_data, load_log>>
run_vars == <<i, successful_refunds, failed_refunds, calls, outcomes, rate_total>>

\* an exception reaches main's handlers: both print and sys.exit(1)
Abort(exc) ==
  /\ fatal' = exc
  /\ exit_code' = <<ExitFail>>
  /\ pc' = "exited"
  /\ results' = results

\* parser.parse_args(): argparse exits with status 2 on a usage error
ParseArgs ==
  /\ pc = "main"
  /\ \E usable \in BOOLEAN :
       IF usable
         THEN /\ pc' = "construct"
              /\ UNCHANGED <<fatal, exit_code>>
         ELSE /\ pc' = "exited"
              /\ fatal' = "SystemExit"
              /\ exit_code' = <<ExitUsage>>
  /\ UNCHANGED <<file_vars, load_vars, run_vars, results>>

\* SquareRefundProcessor(...): setup_logging opens the log file
Construct ==
  /\ pc = "construct"
  /\ \E opened \in BOOLEAN :
       IF opened
         THEN /\ pc' = "open"
              /\ UNCHANGED <<fatal, exit_code, results>>
         ELSE Abort("OSError")
  /\ UNCHANGED <<file_vars, load_vars, run_vars>>

\* process_refunds -> read_csv_file: open the file and read the sample
OpenFile ==
  /\ pc = "open"
  /\ \/ \E f \in InputFiles :
          /\ fstatus' = "ok"
          /\ header' = f.header
          /\ lines' = f.lines
          /\ pc' = "sniff"
          /\ UNCHANGED <<fatal, exit_code, results>>
     \/ \E exc \in {"FileNotFoundError", "OSError"} :
          /\ fstatus' = exc
          /\ UNCHANGED <<header, lines>>
          /\ Abort(exc)
  /\ UNCHANGED <<load_vars, run_vars>>

\* csv.Sniffer().sniff(sample): csv.Error when no delimiter is determined
Sniff ==
  /\ pc = "sniff"
  /\ \E found \in BOOLEAN :
       IF found
         THEN /\ pc' = "header"
              /\ UNCHANGED <<fatal, exit_code, results>>
         ELSE Abort("csv.Error")
  /\ UNCHANGED <<file_vars, load_vars, run_vars>>

\* validation of reader.fieldnames
CheckHeader ==
  /\ pc = "header"
  /\ IF header_rejected(header)
       THEN Abort("ValueError")
       ELSE /\ pc' = "rows"
            /\ UNCHANGED <<fatal, exit_code, results>>
  /\ UNCHANGED <<file_vars, load_vars, run_vars>>

\* one iteration of `for row_num, row in enumerate(reader, start=2)`
ReadRow ==
  /\ pc = "rows"
  /\ next_record(lines, line_pos) # 0
  /\ LET k == next_record(lines, line_pos)
         row_num == StartRow + rows_read
         v == validate_row(header, lines[k])
         entry == [row_num |-> row_num, line_num |-> k + 1, verdict |-> v.verdict]
     IN  /\ line_pos' = k
         /\ rows_read' = rows_read + 1
         /\ load_log' = Append(load_log, entry)
         /\ IF v.verdict \in {"AttributeError", "KeyError"}
              THEN /\ Abort(v.verdict)
                   /\ UNCHANGED refund_data
              ELSE /\ refund_data' =
                        IF v.verdict = "append"
                          THEN Append(refund_data,
                                      [payment_id |-> v.payment_id,
                                       amount |-> v.amount,
                                       row_number |-> row_num])
                          ELSE refund_data
                   /\ UNCHANGED <<pc, fatal, exit_code, results>>
  /\ UNCHANGED <<file_vars, run_vars>>

\* the reader is exhausted: read_csv_file returns refund_data
EndOfFile ==
  /\ pc = "rows"
  /\ next_record(lines, line_pos) = 0
  /\ line_pos' = Len(lines)
  /\ pc' = "loaded"
  /\ UNCHANGED <<file_vars, rows_read, refund_data, load_log, run_vars,
                 results, fatal, exit_code>>

\* process_refunds returns the zero summary and main exits on it
NoValidData ==
  /\ pc = "loaded"
  /\ no_valid_data(refund_data)
  /\ LET summary == RunSummary(0, 0, 0)
     IN  /\ results' = <<summary>>
         /\ exit_code' = <<exit_status(summary)>>
  /\ pc' = "exited"
  /\ UNCHANGED <<file_vars, load_vars, run_vars, fatal>>

StartLoop ==
  /\ pc = "loaded"
  /\ ~no_valid_data(refund_data)
  /\ pc' = "loop"
  /\ UNCHANGED <<file_vars, load_vars, run_vars, results, fatal, exit_code>>

\* one iteration of the loop of process_refunds
ProcessRow ==
  /\ pc = "loop"
  /\ i < Len(refund_data)
  /\ \E outcome \in CallOutcomes :
       LET req == refund_data[i + 1]
           r == create_refund(req.amount, outcome)
       IN  /\ calls' = IF r.called
                         THEN Append(calls, [payment_id |-> req.payment_id,
                                             amount |-> r.cents])
                         ELSE calls
           /\ outcomes' = Append(outcomes, r.did)
           /\ IF r.propagates
                THEN /\ Abort(r.did)
                     /\ UNCHANGED <<i, successful_refunds, failed_refunds>>
                ELSE /\ i' = i + 1
                     /\ successful_refunds' =
                          count_successful(successful_refunds, r.success)
                     /\ failed_refunds' = count_failed(failed_refunds, r.success)
                     /\ UNCHANGED <<pc, fatal, exit_code, results>>
  /\ UNCHANGED <<file_vars, load_vars, rate_total>>

\* the summary block of process_refunds, its return, and main's exit
Summarize ==
  /\ pc = "loop"
  /\ i = Len(refund_data)
  /\ LET total_processed == Len(refund_data)
         summary == RunSummary(total_processed, successful_refunds, failed_refunds)
     IN  /\ rate_total' = Append(rate_total, total_processed)
         /\ IF total_processed = 0
              THEN Abort("ZeroDivisionError")
              ELSE /\ results' = <<summary>>
                   /\ exit_code' = <<exit_status(summary)>>
                   /\ pc' = "exited"
                   /\ UNCHANGED fatal
  /\ UNCHANGED <<file_vars, load_vars, i, successful_refunds, failed_refunds,
                 calls, outcomes>>

\* Ctrl-C outside the refund call, anywhere inside main's try block
Interrupt ==
  /\ pc \in {"construct", "open", "sniff", "header", "rows", "loaded", "loop"}
  /\ Abort("KeyboardInterrupt")
  /\ UNCHANGED <<file_vars, load_vars, run_vars>>

Next ==
  \/ ParseArgs
  \/ Construct
  \/ OpenFile
  \/ Sniff
  \/ CheckHeader
  \/ ReadRow
  \/ EndOfFile
  \/ NoValidData
  \/ StartLoop
  \/ ProcessRow
  \/ Summarize
  \/ Interrupt

Spec == Init /\ [][Next]_vars

----------------------------------------------------------------------------
(* Properties. *)

Last(s) == s[Len(s)]

Count(s, S) == Cardinality({k \in 1..Len(s) : s[k] \in S})

PaymentIds(s) == [k \in 1..Len(s) |-> s[k].payment_id]

\* what create_refund reports as a failure: a result signalling failure, or
\* an Exception raised while building the request, calling or reading the result
FailingOutcomes ==
  {"failure", "success_no_body", "no_indicator", "APIException", "Exception",
   "OverflowError", "ValueError"}

Returned == results # <<>>

\* C1: every create_refund invocation that ends in a failure result or a
\* raised Exception adds exactly one to failed_refunds, no such outcome ends
\* the run, every loaded request has been attempted when the summary is
\* returned, and rows [A fails, B succeeds] give total=2, successful=1, failed=1.
C1_FailureIsolation ==
  /\ failed_refunds = Count(outcomes, FailingOutcomes)
  /\ outcomes # <<>> => fatal \in {"none", "KeyboardInterrupt"}
  /\ (Returned /\ refund_data # <<>>) =>
       /\ Len(outcomes) = Len(refund_data)
       /\ results[1].failed = Count(outcomes, FailingOutcomes)
  /\ (Returned /\ Len(outcomes) = 2 /\ outcomes[1] \in FailingOutcomes
        /\ outcomes[2] = "success") =>
       results[1] = RunSummary(2, 1, 1)

C1_Witness ==
  /\ Returned
  /\ outcomes = <<"APIException", "success">>
  /\ Len(calls) = 2

\* C2: the summary returned by process_refunds has total = successful + failed
\* with both counters non-negative, also for an input without valid rows.
C2_SummaryAddsUp ==
  Returned =>
    /\ results[1].total = results[1].successful + results[1].failed
    /\ results[1].successful >= 0
    /\ results[1].failed >= 0

C2_Witness ==
  /\ Returned
  /\ results[1].successful = 1
  /\ results[1].failed = 2

NonBlank(ls) == {k \in 1..Len(ls) : ls[k] # <<>>}

\* C3: when the file cannot be opened or read, or its header lacks
\* payment_id or amount, the run ends with the error raised, without any
\* refund call and without a summary; a refund call is made only after
\* every line of the file has been read.
C3_LoadBeforeCalls ==
  /\ (pc = "exited" /\ fstatus \in {"FileNotFoundError", "OSError"}) =>
       /\ fatal = fstatus
       /\ calls = <<>> /\ outcomes = <<>> /\ ~Returned
  /\ (pc = "exited" /\ fstatus = "ok"
        /\ ~(RequiredColumns \subseteq Range(header))) =>
       /\ fatal \in {"ValueError", "csv.Error", "KeyboardInterrupt"}
       /\ calls = <<>> /\ outcomes = <<>> /\ ~Returned
  /\ outcomes # <<>> =>
       /\ line_pos = Len(lines)
       /\ Len(load_log) = Cardinality(NonBlank(lines))

C3_Witness ==
  /\ pc = "exited"
  /\ header = <<"payment_id", "amt">>
  /\ lines # <<>>
  /\ fatal = "ValueError"

C5_OneCallPerRequest ==
  /\ pc = "loop" => Len(calls) = i
  /\ (Returned /\ refund_data # <<>>) => PaymentIds(calls) = PaymentIds(refund_data)

\* C6: once the header holds both required columns, no data row makes the
\* load fail: each row is either loaded or skipped with a warning.
C6_NoRowFailsLoad ==
  \A k \in 1..Len(load_log) :
    load_log[k].verdict \in
      {"append", "empty_payment_id", "invalid_format", "invalid_amount"}

\* a data line that the loader is to keep
KeptLine(fieldnames, cells) ==
  /\ cells # <<>>
  /\ strip(field(fieldnames, cells, "payment_id").text) # <<>>
  /\ positive(float(field(fieldnames, cells, "amount").text))

RECURSIVE KeptIds(_, _)
KeptIds(fieldnames, ls) ==
  IF ls = <<>> THEN <<>>
  ELSE IF KeptLine(fieldnames, Head(ls))
         THEN <<strip(field(fieldnames, Head(ls), "payment_id").text)>>
                \o KeptIds(fieldnames, Tail(ls))
         ELSE KeptIds(fieldnames, Tail(ls))

\* C7: the list returned by read_csv_file is the subsequence, in file order,
\* of the rows with a non-empty trimmed payment_id and an amount that parses
\* to a number greater than zero; every returned request is such a row.
C7_LoadedSubsequence ==
  pc \in {"loaded", "loop"} =>
    /\ PaymentIds(refund_data) = KeptIds(header, lines)
    /\ \A k \in 1..Len(refund_data) :
         /\ refund_data[k].payment_id # <<>>
         /\ positive(refund_data[k].amount)

\* C8: a KeyboardInterrupt during the call for row k is not counted as a
\* failure of that row, no later row is called, no summary is returned and
\* the exit code is 1.
C8_InterruptIsTerminal ==
  (outcomes # <<>> /\ Last(outcomes) = "KeyboardInterrupt") =>
    /\ pc = "exited"
    /\ fatal = "KeyboardInterrupt"
    /\ exit_code = <<ExitFail>>
    /\ ~Returned
    /\ i = Len(outcomes) - 1
    /\ successful_refunds + failed_refunds = i
    /\ Len(calls) <= Len(outcomes)

C8_Witness ==
  /\ outcomes = <<"success", "KeyboardInterrupt">>
  /\ Len(refund_data) = 3
  /\ Len(calls) = 2

\* C9: the row number recorded for each data row is at least 2 and is the
\* physical line number of that row in the file.
C9_RowNumberIsLineNumber ==
  \A k \in 1..Len(load_log) :
    load_log[k].verdict \in
        {"append", "empty_payment_id", "invalid_format", "invalid_amount"} =>
      /\ load_log[k].row_num >= StartRow
      /\ load_log[k].row_num = load_log[k].line_num

\* C10: without valid rows process_refunds makes no refund call, evaluates
\* no success rate and returns the zero summary; the success rate is only
\* ever evaluated with a total of at least 1.
C10_ZeroRows ==
  /\ refund_data = <<>> => (calls = <<>> /\ outcomes = <<>> /\ rate_total = <<>>)
  /\ (pc = "exited" /\ fatal = "none" /\ refund_data = <<>>) =>
       results = <<RunSummary(0, 0, 0)>>
  /\ \A k \in 1..Len(rate_total) : rate_total[k] >= 1

C10_Witness ==
  /\ results = <<RunSummary(0, 0, 0)>>
  /\ Len(load_log) >= 2

====
